---- MODULE Spec2Model ----
(***************************************************************************)
(* Model of model.py: the label-balanced train/test splitter of            *)
(* SpamDataset and the control flow of train_image_spam_classifier,        *)
(* evaluate_image_spam_classifier and the __main__ script.                  *)
(*                                                                         *)
(* A label mapping (a Python dict, which iterates in insertion order) is a *)
(* sequence of items [path, label] with pairwise distinct paths.  A path   *)
(* is a number standing for a distinct path string.  A label value is      *)
(* either a Python int or a Python str; the two never compare equal as     *)
(* dict keys, which the record representation below preserves.             *)
(* A ratio is a pair <<num, den>> standing for the number num/den.         *)
(***************************************************************************)
EXTENDS Integers, Sequences, FiniteSets, TLC

\* ---------------------------------------------------------------- bounds
MaxPaths == 3
MaxDen == 4
MaxGroup == 25

\* ------------------------------------------------------ program constants
batch_size == 16
num_epochs == 5
max_norm == 5

\* ------------------------------------------------------------ label values
IntLabel(n) == [kind |-> "int", val |-> n, text |-> ""]
StrLabel(t) == [kind |-> "str", val |-> 0, text |-> t]

\* decimal texts that int() accepts, with the value each one parses to
DecimalText == <<"1", "2", "3">>

\* the label values the inputs are drawn from; "x" is a string int() rejects
LabelValues ==
    {IntLabel(1), StrLabel("1"), StrLabel("2"), IntLabel(3), StrLabel("x")}

\* int(label) succeeds
Convertible(label) ==
    \/ label.kind = "int"
    \/ \E k \in DOMAIN DecimalText : DecimalText[k] = label.text

\* int(label)
PyInt(label) ==
    IF label.kind = "int" THEN label.val
    ELSE CHOOSE k \in DOMAIN DecimalText : DecimalText[k] = label.text

\* int(label)-1 written without the offset
ZeroBased_raw(label) == PyInt(label)

\* int(label)-1
ZeroBased(label) == PyInt(label) - 1

\* ------------------------------------------------------------ the splitter
\* balance_dict.setdefault(label, list()).append(img_path), prepending
SetDefaultAppend_front(balance_dict, label, img_path) ==
    IF \E i \in DOMAIN balance_dict : balance_dict[i].label = label
    THEN [i \in DOMAIN balance_dict |->
            IF balance_dict[i].label = label
            THEN [balance_dict[i] EXCEPT !.img_paths = <<img_path>> \o @]
            ELSE balance_dict[i]]
    ELSE Append(balance_dict, [label |-> label, img_paths |-> <<img_path>>])

\* balance_dict.setdefault(label, list()).append(img_path)
\* balance_dict is an insertion-ordered dict: a sequence of [label, img_paths]
SetDefaultAppend(balance_dict, label, img_path) ==
    IF \E i \in DOMAIN balance_dict : balance_dict[i].label = label
    THEN [i \in DOMAIN balance_dict |->
            IF balance_dict[i].label = label
            THEN [balance_dict[i] EXCEPT !.img_paths = Append(@, img_path)]
            ELSE balance_dict[i]]
    ELSE Append(balance_dict, [label |-> label, img_paths |-> <<img_path>>])

RECURSIVE GroupByLabel(_)
\* the first loop: for img_path, label in label_json.items()
GroupByLabel(items) ==
    IF items = <<>> THEN <<>>
    ELSE LET n == Len(items)
         IN  SetDefaultAppend(GroupByLabel(SubSeq(items, 1, n - 1)),
                              items[n].label, items[n].path)

\* int(len(img_paths) * train_ratio), rounding up
SplitIndex_ceil(img_paths, train_ratio) ==
    (Len(img_paths) * train_ratio[1] + train_ratio[2] - 1) \div train_ratio[2]

\* int(len(img_paths) * train_ratio): truncation of a non-negative product
SplitIndex(img_paths, train_ratio) ==
    (Len(img_paths) * train_ratio[1]) \div train_ratio[2]

\* the slice, with the test slice starting one element late
SelectPaths_late(img_paths, split_index, train) ==
    IF train THEN SubSeq(img_paths, 1, split_index)
    ELSE SubSeq(img_paths, split_index + 2, Len(img_paths))

\* img_paths[:split_index] if train else img_paths[split_index:]
SelectPaths(img_paths, split_index, train) ==
    IF train THEN SubSeq(img_paths, 1, split_index)
    ELSE SubSeq(img_paths, split_index + 1, Len(img_paths))

\* the inner loop: contents.append((img_path, int(label)-1)) for each path
GroupPairs(label, _img_paths) ==
    [i \in 1..Len(_img_paths) |->
        [path |-> _img_paths[i], label |-> ZeroBased(label)]]

RECURSIVE EmitGroups(_, _, _)
\* the second loop: for label, img_paths in balance_dict.items().
\* The result is [raised, contents]: int(label) raises ValueError on the
\* first selected path of a group whose label is not the text of an int.
EmitGroups(balance_dict, train, train_ratio) ==
    IF balance_dict = <<>> THEN [raised |-> FALSE, contents |-> <<>>]
    ELSE LET n == Len(balance_dict)
             before == EmitGroups(SubSeq(balance_dict, 1, n - 1),
                                  train, train_ratio)
             g == balance_dict[n]
             _img_paths == SelectPaths(g.img_paths,
                                       SplitIndex(g.img_paths, train_ratio),
                                       train)
         IN  IF before.raised THEN before
             ELSE IF _img_paths # <<>> /\ ~Convertible(g.label)
                  THEN [raised |-> TRUE, contents |-> <<>>]
                  ELSE [raised |-> FALSE,
                        contents |-> before.contents
                                       \o GroupPairs(g.label, _img_paths)]

\* a splitter that rejects a mapping without labels
split_dataset_with_balancing_nonempty(label_json, train, train_ratio) ==
    IF label_json = <<>> THEN [raised |-> TRUE, contents |-> <<>>]
    ELSE EmitGroups(GroupByLabel(label_json), train, train_ratio)

\* SpamDataset.split_dataset_with_balancing
split_dataset_with_balancing(label_json, train, train_ratio) ==
    EmitGroups(GroupByLabel(label_json), train, train_ratio)

\* SpamDataset.__init__: the constructed instance, or the exception
SpamDataset(label_json, train, train_ratio) ==
    LET r == split_dataset_with_balancing(label_json, train, train_ratio)
    IN  [status |-> IF r.raised THEN "raised" ELSE "built",
         contents |-> r.contents]

\* SpamDataset.__len__
DatasetLen(ds) == Len(ds.contents)

NoDataset == [status |-> "none", contents |-> <<>>]

\* ---------------------------------------------------------------- inputs
Paths == 1..MaxPaths

\* every label mapping over at most MaxPaths distinct paths
InjectiveSeqs(n) ==
    {s \in [1..n -> Paths] : \A i, j \in 1..n : s[i] = s[j] => i = j}

Mappings ==
    UNION {{[i \in 1..n |-> [path |-> ps[i], label |-> ls[i]]] :
               ps \in InjectiveSeqs(n), ls \in [1..n -> LabelValues]} :
           n \in 0..MaxPaths}

\* train_ratio in (0,1): every num/den with den <= MaxDen, and the default 0.7
DefaultRatio == <<7, 10>>

Ratios ==
    {r \in (1..MaxDen) \X (2..MaxDen) : r[1] < r[2]} \cup {DefaultRatio}

\* the mappings the script is run on: n1 paths labelled "1" followed by n2
\* paths labelled "2", at most MaxGroup paths in all; MaxGroup paths of one
\* label give an epoch of more than one batch
Block(n1, n2) ==
    [i \in 1..(n1 + n2) |->
        [path |-> i,
         label |-> IF i <= n1 THEN StrLabel("1") ELSE StrLabel("2")]]

TrainMappings ==
    {Block(n[1], n[2]) :
        n \in {c \in (0..MaxGroup) \X (0..1) : c[1] + c[2] <= MaxGroup}}

\* loss.item() rounded to 3 places, in thousandths
LossVals == {412, 530}

\* ------------------------------------------------------ training helpers
\* the name loss_mean before its first assignment
Unbound == -1

\* 'google/vit-base-patch16-224-in21k'
Pretrained == <<"google/vit-base-patch16-224-in21k">>

\* no checkpoint loaded
NoCheckpoint == <<>>

\* f'vit_epochs_{epoch}_loss_{loss_mean}.pt'
CheckpointName(epoch, loss_mean) ==
    <<"vit_epochs_", epoch, "_loss_", loss_mean, ".pt">>

RECURSIVE Sum(_)
\* sum(losses)
Sum(losses) ==
    IF losses = <<>> THEN 0
    ELSE losses[Len(losses)] + Sum(SubSeq(losses, 1, Len(losses) - 1))

\* round(sum(losses) / len(losses), 3), in thousandths: nearest, ties to even
RoundMean(losses) ==
    LET n == Len(losses)
        q == Sum(losses) \div n
        r == Sum(losses) % n
    IN  IF 2 * r < n THEN q
        ELSE IF 2 * r > n THEN q + 1
        ELSE IF q % 2 = 0 THEN q ELSE q + 1

\* len(DataLoader(dataset, batch_size=16)): ceil(n / batch_size)
NumBatches(n) == (n + batch_size - 1) \div batch_size

RECURSIVE KSubsets(_, _)
\* the subsets of S with k elements
KSubsets(S, k) ==
    IF k = 0 THEN {{}}
    ELSE UNION {{T \cup {x} : T \in KSubsets({y \in S : y > x}, k - 1)} :
                x \in S}

\* the batches a shuffling DataLoader may yield next: any batch_size of the
\* samples not yet yielded in this epoch, or all of them when fewer are left
NextBatches(remaining) ==
    IF Cardinality(remaining) <= batch_size THEN {remaining}
    ELSE {remaining \ rest :
            rest \in KSubsets(remaining, Cardinality(remaining) - batch_size)}

\* the operations of one training batch, in source order
BatchOps == <<"zero_grad", "open", "forward", "loss", "backward", "clip",
              "step">>

\* ----------------------------------------------------------------- state
VARIABLES
    label_json,       \* the label mapping
    train_ratio,      \* the ratio the datasets are built with
    train_dataset,    \* SpamDataset(label_json, True, train_ratio)
    test_dataset,     \* SpamDataset(label_json, False, train_ratio)
    pc,               \* position of the script
    error,            \* the exception that ended the script, or "none"
    model_checkpoint, \* __main__'s model_checkpoint
    checkpoint,       \* train_image_spam_classifier's model_checkpoint
    epoch,            \* the epoch index
    remaining,        \* dataset indices the loader has not yet yielded
    batch,            \* the batch being processed, {} between batches
    batch_ops,        \* the operations performed on that batch so far
    loss,             \* the loss of that batch
    losses,           \* the list losses
    loss_mean,        \* the name loss_mean
    params,           \* number of in-place updates of the model parameters
    saved,            \* the save_pretrained calls, in order
    eval_loaded,      \* the checkpoint the evaluation loaded
    n_evaluated,      \* len(true_labels)
    report            \* report.txt has been written

dataVars == <<label_json, train_ratio>>
datasetVars == <<train_dataset, test_dataset>>
batchVars == <<remaining, batch, batch_ops, loss>>
trainVars == <<checkpoint, epoch, losses, loss_mean, params, saved>>
evalVars == <<eval_loaded, n_evaluated, report>>
runVars == <<error, model_checkpoint, batchVars, trainVars, evalVars>>

vars == <<dataVars, datasetVars, pc, runVars>>

\* the script before train_image_spam_classifier is called (lines 109-111)
InitRun ==
    /\ error = "none"
    /\ model_checkpoint = Pretrained
    /\ checkpoint = NoCheckpoint
    /\ epoch = 0
    /\ remaining = {}
    /\ batch = {}
    /\ batch_ops = <<>>
    /\ loss = 0
    /\ losses = <<>>
    /\ loss_mean = Unbound
    /\ params = 0
    /\ saved = <<>>
    /\ eval_loaded = NoCheckpoint
    /\ n_evaluated = 0
    /\ report = FALSE

\* --------------------------------------------- the splitter on all inputs
InitSplit ==
    /\ label_json \in Mappings
    /\ train_ratio \in Ratios
    /\ train_dataset = NoDataset
    /\ test_dataset = NoDataset
    /\ pc = "split"
    /\ InitRun

\* SpamDataset(label_json, train=True, train_ratio)
NewTrainDataset ==
    /\ pc = "split"
    /\ train_dataset.status = "none"
    /\ train_dataset' = SpamDataset(label_json, TRUE, train_ratio)
    /\ UNCHANGED <<dataVars, test_dataset, pc, runVars>>

\* SpamDataset(label_json, train=False, train_ratio)
NewTestDataset ==
    /\ pc = "split"
    /\ test_dataset.status = "none"
    /\ test_dataset' = SpamDataset(label_json, FALSE, train_ratio)
    /\ UNCHANGED <<dataVars, train_dataset, pc, runVars>>

NextSplit == NewTrainDataset \/ NewTestDataset

SpecSplit == InitSplit /\ [][NextSplit]_vars

\* ------------------------------------------------------------ the script
InitMain ==
    /\ label_json \in TrainMappings
    /\ train_ratio = DefaultRatio
    /\ train_dataset = NoDataset
    /\ test_dataset = NoDataset
    /\ pc = "main"
    /\ InitRun

\* lines 114, 45-54: the call, the dataset, the loader, the model, the optimizer
TrainSetup ==
    /\ pc = "main"
    /\ train_dataset' = SpamDataset(label_json, TRUE, DefaultRatio)
    /\ checkpoint' = model_checkpoint
    /\ IF train_dataset'.status = "raised"
       THEN pc' = "error" /\ error' = "int_label"
       ELSE pc' = "epoch" /\ error' = error
    /\ UNCHANGED <<dataVars, test_dataset, model_checkpoint, batchVars,
                   epoch, losses, loss_mean, params, saved, evalVars>>

\* lines 55-57 with the list of the previous epoch kept
EpochStart_keep ==
    /\ pc = "epoch"
    /\ epoch < num_epochs
    /\ remaining' = 1..DatasetLen(train_dataset)
    /\ pc' = "fetch"
    /\ UNCHANGED <<dataVars, datasetVars, error, model_checkpoint, batch,
                   batch_ops, loss, trainVars, evalVars>>

\* lines 55-57: the next epoch begins; losses = [], a new pass of the loader
EpochStart ==
    /\ pc = "epoch"
    /\ epoch < num_epochs
    /\ losses' = <<>>
    /\ remaining' = 1..DatasetLen(train_dataset)
    /\ pc' = "fetch"
    /\ UNCHANGED <<dataVars, datasetVars, error, model_checkpoint, batch,
                   batch_ops, loss, checkpoint, epoch, loss_mean, params,
                   saved, evalVars>>

\* line 58: the loader yields the next batch
FetchBatch ==
    /\ pc = "fetch"
    /\ remaining # {}
    /\ \E b \in NextBatches(remaining) :
         /\ batch' = b
         /\ remaining' = remaining \ b
    /\ batch_ops' = <<>>
    /\ pc' = "zero_grad"
    /\ UNCHANGED <<dataVars, datasetVars, error, model_checkpoint, loss,
                   trainVars, evalVars>>

\* line 59: optim.zero_grad()
ZeroGrad ==
    /\ pc = "zero_grad"
    /\ batch_ops' = Append(batch_ops, "zero_grad")
    /\ pc' = "open"
    /\ UNCHANGED <<dataVars, datasetVars, error, model_checkpoint, remaining,
                   batch, loss, trainVars, evalVars>>

\* line 60: every image of the batch opens
OpenImages ==
    /\ pc = "open"
    /\ batch_ops' = Append(batch_ops, "open")
    /\ pc' = "forward"
    /\ UNCHANGED <<dataVars, datasetVars, error, model_checkpoint, remaining,
                   batch, loss, trainVars, evalVars>>

\* line 60 with the failing batch dropped and the loop continued
OpenImagesFails_skip ==
    /\ pc = "open"
    /\ pc' = "fetch"
    /\ UNCHANGED <<dataVars, datasetVars, runVars>>

\* line 60: Image.open raises on a path of the batch; nothing catches it
OpenImagesFails ==
    /\ pc = "open"
    /\ pc' = "error"
    /\ error' = "open_train"
    /\ UNCHANGED <<dataVars, datasetVars, model_checkpoint, batchVars,
                   trainVars, evalVars>>

\* lines 61-62: feature extraction and the forward pass
Forward ==
    /\ pc = "forward"
    /\ batch_ops' = Append(batch_ops, "forward")
    /\ pc' = "loss"
    /\ UNCHANGED <<dataVars, datasetVars, error, model_checkpoint, remaining,
                   batch, loss, trainVars, evalVars>>

\* lines 63-64: the cross-entropy loss of the batch
ComputeLoss ==
    /\ pc = "loss"
    /\ loss' \in LossVals
    /\ batch_ops' = Append(batch_ops, "loss")
    /\ pc' = "backward"
    /\ UNCHANGED <<dataVars, datasetVars, error, model_checkpoint, remaining,
                   batch, trainVars, evalVars>>

\* line 65: loss.backward()
Backward ==
    /\ pc = "backward"
    /\ batch_ops' = Append(batch_ops, "backward")
    /\ pc' = "clip"
    /\ UNCHANGED <<dataVars, datasetVars, error, model_checkpoint, remaining,
                   batch, loss, trainVars, evalVars>>

\* lines 66-67: clip_grad_norm(model.parameters(), max_norm=max_norm)
ClipGradNorm ==
    /\ pc = "clip"
    /\ batch_ops' = Append(batch_ops, "clip")
    /\ pc' = "step"
    /\ UNCHANGED <<dataVars, datasetVars, error, model_checkpoint, remaining,
                   batch, loss, trainVars, evalVars>>

\* line 68: optim.step() updates the parameters in place
OptimStep ==
    /\ pc = "step"
    /\ params' = params + 1
    /\ batch_ops' = Append(batch_ops, "step")
    /\ pc' = "record"
    /\ UNCHANGED <<dataVars, datasetVars, error, model_checkpoint, remaining,
                   batch, loss, checkpoint, epoch, losses, loss_mean, saved,
                   evalVars>>

\* lines 69-73: the loss joins the list and loss_mean is recomputed
RecordLoss ==
    /\ pc = "record"
    /\ losses' = Append(losses, loss)
    /\ loss_mean' = RoundMean(losses')
    /\ batch' = {}
    /\ pc' = "fetch"
    /\ UNCHANGED <<dataVars, datasetVars, error, model_checkpoint, remaining,
                   batch_ops, loss, checkpoint, epoch, params, saved,
                   evalVars>>

\* lines 74-75 with the saved name not kept
SaveCheckpoint_forget ==
    /\ pc = "fetch"
    /\ remaining = {}
    /\ loss_mean # Unbound
    /\ saved' = Append(saved, [name |-> CheckpointName(epoch, loss_mean),
                               params |-> params])
    /\ epoch' = epoch + 1
    /\ pc' = "epoch"
    /\ UNCHANGED <<dataVars, datasetVars, error, model_checkpoint, batchVars,
                   checkpoint, losses, loss_mean, params, evalVars>>

\* lines 74-75: the loader is exhausted; the epoch's checkpoint is saved
SaveCheckpoint ==
    /\ pc = "fetch"
    /\ remaining = {}
    /\ loss_mean # Unbound
    /\ checkpoint' = CheckpointName(epoch, loss_mean)
    /\ saved' = Append(saved, [name |-> checkpoint', params |-> params])
    /\ epoch' = epoch + 1
    /\ pc' = "epoch"
    /\ UNCHANGED <<dataVars, datasetVars, error, model_checkpoint, batchVars,
                   losses, loss_mean, params, evalVars>>

\* line 74: no batch has assigned loss_mean; the f-string raises
\* UnboundLocalError
SaveCheckpointUnbound ==
    /\ pc = "fetch"
    /\ remaining = {}
    /\ loss_mean = Unbound
    /\ pc' = "error"
    /\ error' = "loss_mean_unbound"
    /\ UNCHANGED <<dataVars, datasetVars, model_checkpoint, batchVars,
                   trainVars, evalVars>>

\* lines 76, 114: return model_checkpoint, assigned in __main__
TrainReturn ==
    /\ pc = "epoch"
    /\ epoch = num_epochs
    /\ model_checkpoint' = checkpoint
    /\ pc' = "main_eval"
    /\ UNCHANGED <<dataVars, datasetVars, error, batchVars, trainVars,
                   evalVars>>

\* lines 117, 80-89: the test dataset, its loader, the model from the checkpoint
EvalSetup ==
    /\ pc = "main_eval"
    /\ test_dataset' = SpamDataset(label_json, FALSE, DefaultRatio)
    /\ IF test_dataset'.status = "raised"
       THEN /\ pc' = "error"
            /\ error' = "int_label"
            /\ UNCHANGED <<remaining, eval_loaded>>
       ELSE /\ pc' = "eval_fetch"
            /\ error' = error
            /\ remaining' = 1..DatasetLen(test_dataset')
            /\ eval_loaded' = model_checkpoint
    /\ UNCHANGED <<dataVars, train_dataset, model_checkpoint, batch,
                   batch_ops, loss, trainVars, n_evaluated, report>>

\* line 90: the test loader yields the next batch
EvalFetchBatch ==
    /\ pc = "eval_fetch"
    /\ remaining # {}
    /\ \E b \in NextBatches(remaining) :
         /\ batch' = b
         /\ remaining' = remaining \ b
    /\ pc' = "eval_open"
    /\ UNCHANGED <<dataVars, datasetVars, error, model_checkpoint, batch_ops,
                   loss, trainVars, evalVars>>

\* lines 91-97: the batch is read, predicted and collected
EvalBatch ==
    /\ pc = "eval_open"
    /\ n_evaluated' = n_evaluated + Cardinality(batch)
    /\ batch' = {}
    /\ pc' = "eval_fetch"
    /\ UNCHANGED <<dataVars, datasetVars, error, model_checkpoint, remaining,
                   batch_ops, loss, trainVars, eval_loaded, report>>

\* line 91: Image.open raises on a path of the test batch
EvalOpenFails ==
    /\ pc = "eval_open"
    /\ pc' = "error"
    /\ error' = "open_eval"
    /\ UNCHANGED <<dataVars, datasetVars, model_checkpoint, batchVars,
                   trainVars, evalVars>>

\* lines 98-105: the report is written to report.txt
WriteReport ==
    /\ pc = "eval_fetch"
    /\ remaining = {}
    /\ report' = TRUE
    /\ pc' = "done"
    /\ UNCHANGED <<dataVars, datasetVars, error, model_checkpoint, batchVars,
                   trainVars, eval_loaded, n_evaluated>>

Next ==
    \/ TrainSetup
    \/ EpochStart
    \/ FetchBatch
    \/ ZeroGrad
    \/ OpenImages
    \/ OpenImagesFails
    \/ Forward
    \/ ComputeLoss
    \/ Backward
    \/ ClipGradNorm
    \/ OptimStep
    \/ RecordLoss
    \/ SaveCheckpoint
    \/ SaveCheckpointUnbound
    \/ TrainReturn
    \/ EvalSetup
    \/ EvalFetchBatch
    \/ EvalBatch
    \/ EvalOpenFails
    \/ WriteReport

Spec == InitMain /\ [][Next]_vars

\* ------------------------------------------------- vocabulary of the claims
\* the label values of a mapping
LabelsOf(m) == {m[i].label : i \in DOMAIN m}

\* the mapping's paths with source label l, in the mapping's iteration order
PathsOfLabel(m, l) ==
    LET Keep(item) == item.label = l
        kept == SelectSeq(m, Keep)
    IN  [i \in DOMAIN kept |-> kept[i].path]

\* the position of path p in the mapping, and the label the mapping gives it
IndexOfPath(m, p) == CHOOSE i \in DOMAIN m : m[i].path = p
LabelOfPath(m, p) == m[IndexOfPath(m, p)].label

\* the position at which label value l first appears in the mapping
FirstIndexOfLabel(m, l) ==
    CHOOSE i \in DOMAIN m :
        m[i].label = l /\ \A j \in 1..(i - 1) : m[j].label # l

\* the paths of a dataset whose source label is l, in the dataset's order
DatasetPathsOfLabel(ds, m, l) ==
    LET Keep(pair) == LabelOfPath(m, pair.path) = l
        kept == SelectSeq(ds.contents, Keep)
    IN  [i \in DOMAIN kept |-> kept[i].path]

\* floor(L * num/den)
Floor(L, r) ==
    CHOOSE k \in 0..L : k * r[2] <= L * r[1] /\ (k + 1) * r[2] > L * r[1]

\* the integer a source label denotes: 1 for the int 1 and for the string "1"
SourceValue(l) ==
    IF l.kind = "int" THEN l.val
    ELSE CASE l.text = "1" -> 1 [] l.text = "2" -> 2 [] l.text = "3" -> 3

\* every label of the mapping is an int or the text of one
WellFormed(m) == \A i \in DOMAIN m : m[i].label.text \in {"", "1", "2", "3"}

Built(ds) == ds.status = "built"

\* C1: for every label value with L paths, the train instance holds
\* floor(L*r) pairs of that label and the test instance L - floor(L*r), so the
\* two counts sum to L; instances of a well-formed mapping are always built.
C1_SplitCounts ==
    /\ WellFormed(label_json) =>
         train_dataset.status # "raised" /\ test_dataset.status # "raised"
    /\ \A l \in LabelsOf(label_json) :
         LET L == Len(PathsOfLabel(label_json, l))
             nTrain == Len(DatasetPathsOfLabel(train_dataset, label_json, l))
             nTest == Len(DatasetPathsOfLabel(test_dataset, label_json, l))
         IN  /\ Built(train_dataset) => nTrain = Floor(L, train_ratio)
             /\ Built(test_dataset) => nTest = L - Floor(L, train_ratio)
             /\ Built(train_dataset) /\ Built(test_dataset) =>
                  nTrain + nTest = L

\* a label with a single path at r = 0.5: nothing in train, its path in test;
\* beside a label with two paths, one of them in train
C1_Witness ==
    /\ Built(train_dataset) /\ Built(test_dataset)
    /\ train_ratio = <<1, 2>>
    /\ \E l \in LabelsOf(label_json) :
         /\ Len(PathsOfLabel(label_json, l)) = 1
         /\ DatasetPathsOfLabel(train_dataset, label_json, l) = <<>>
         /\ Len(DatasetPathsOfLabel(test_dataset, label_json, l)) = 1
    /\ \E l \in LabelsOf(label_json) :
         /\ Len(PathsOfLabel(label_json, l)) = 2
         /\ Len(DatasetPathsOfLabel(train_dataset, label_json, l)) = 1

\* C2: the train and test instances of one mapping are complementary per
\* label: no path is in both, and the label's train paths followed by its
\* test paths are that label's paths in the mapping's iteration order.
C2_Complementary ==
    Built(train_dataset) /\ Built(test_dataset) =>
        /\ \A i \in DOMAIN train_dataset.contents :
             \A j \in DOMAIN test_dataset.contents :
                train_dataset.contents[i].path # test_dataset.contents[j].path
        /\ \A l \in LabelsOf(label_json) :
             DatasetPathsOfLabel(train_dataset, label_json, l)
                 \o DatasetPathsOfLabel(test_dataset, label_json, l)
               = PathsOfLabel(label_json, l)
        /\ Len(train_dataset.contents) + Len(test_dataset.contents)
             = Len(label_json)

\* a label whose paths are shared out between both instances
C2_Witness ==
    /\ Built(train_dataset) /\ Built(test_dataset)
    /\ \E l \in LabelsOf(label_json) :
         /\ DatasetPathsOfLabel(train_dataset, label_json, l) # <<>>
         /\ Len(DatasetPathsOfLabel(test_dataset, label_json, l)) >= 2

\* C3: from an empty mapping either instance is constructed without an
\* exception and has length 0, whatever the ratio.
C3_EmptyMapping ==
    label_json = <<>> =>
        /\ train_dataset.status # "raised"
        /\ test_dataset.status # "raised"
        /\ DatasetLen(train_dataset) = 0
        /\ DatasetLen(test_dataset) = 0

\* both instances built from the empty mapping
C3_Witness ==
    /\ label_json = <<>>
    /\ Built(train_dataset) /\ Built(test_dataset)

\* C7: every pair of a dataset carries the integer value of the source label
\* of its path, minus 1, for int labels and for string labels alike.
C7_ZeroBasedLabels ==
    \A ds \in {train_dataset, test_dataset} :
        Built(ds) =>
            \A i \in DOMAIN ds.contents :
                ds.contents[i].label
                  = SourceValue(LabelOfPath(label_json, ds.contents[i].path)) - 1

\* a test instance holding a pair from an int label and one from a str label
C7_Witness ==
    /\ Built(test_dataset)
    /\ \E i, j \in DOMAIN test_dataset.contents :
         /\ LabelOfPath(label_json, test_dataset.contents[i].path)
              = IntLabel(3)
         /\ test_dataset.contents[i].label = 2
         /\ LabelOfPath(label_json, test_dataset.contents[j].path)
              = StrLabel("2")
         /\ test_dataset.contents[j].label = 1

\* C8: the contents are the per-label groups one after the other, the groups
\* in the order in which their label values first appear in the mapping and
\* the paths of a group in the mapping's order: of two pairs, the earlier
\* one's label appears first no later, and within a label the earlier one's
\* path comes earlier in the mapping.
C8_GroupOrder ==
    \A ds \in {train_dataset, test_dataset} :
        Built(ds) =>
            \A i, j \in DOMAIN ds.contents :
                i < j =>
                    LET pi == ds.contents[i].path
                        pj == ds.contents[j].path
                        li == LabelOfPath(label_json, pi)
                        lj == LabelOfPath(label_json, pj)
                    IN  /\ FirstIndexOfLabel(label_json, li)
                             <= FirstIndexOfLabel(label_json, lj)
                        /\ li = lj =>
                             IndexOfPath(label_json, pi)
                               < IndexOfPath(label_json, pj)

\* a test instance of a mapping that alternates two labels: the contents
\* regroup it, and the group of two keeps the mapping's order of its paths
C8_Witness ==
    /\ Built(test_dataset)
    /\ Len(label_json) = 3
    /\ label_json[1].label = label_json[3].label
    /\ label_json[1].label # label_json[2].label
    /\ label_json[1].path > label_json[3].path
    /\ Len(test_dataset.contents) = 3
    /\ test_dataset.contents[1].path = label_json[1].path
    /\ test_dataset.contents[2].path = label_json[3].path
    /\ test_dataset.contents[3].path = label_json[2].path

\* the mapping's paths whose source label converts to zero-based label k
PathsOfClass(m, k) ==
    LET Keep(item) == SourceValue(item.label) - 1 = k
        kept == SelectSeq(m, Keep)
    IN  [i \in DOMAIN kept |-> kept[i].path]

\* the paths of a dataset's pairs with zero-based label k
DatasetPathsOfClass(ds, k) ==
    LET Keep(pair) == pair.label = k
        kept == SelectSeq(ds.contents, Keep)
    IN  [i \in DOMAIN kept |-> kept[i].path]

\* C9: for each zero-based label k, the train split holds the first
\* floor(L_k * train_ratio) of the L_k mapping paths whose source label
\* converts to k, in mapping order, and the test split the remaining ones,
\* also when one label value is written "1" for some paths and 1 for others.
C9_SplitPerClass ==
    WellFormed(label_json) =>
        \A k \in {SourceValue(l) - 1 : l \in LabelsOf(label_json)} :
            LET all == PathsOfClass(label_json, k)
                cut == Floor(Len(all), train_ratio)
            IN  /\ Built(train_dataset) =>
                     DatasetPathsOfClass(train_dataset, k)
                       = SubSeq(all, 1, cut)
                /\ Built(test_dataset) =>
                     DatasetPathsOfClass(test_dataset, k)
                       = SubSeq(all, cut + 1, Len(all))

\* ------------------------------------------------- claims about the script
\* batches per epoch of the training run
BatchesPerEpoch == NumBatches(DatasetLen(train_dataset))

\* train_image_spam_classifier has returned
TrainingCompleted ==
    \/ pc \in {"main_eval", "eval_fetch", "eval_open", "done"}
    \/ pc = "error" /\ error = "open_eval"

\* the epoch index a checkpoint name was formatted from
EpochOfName(name) == name[2]

\* C4: called with an empty label mapping, training runs its epochs with
\* zero batches each and returns a checkpoint identifier instead of
\* terminating with an error.
C4_EmptyMappingTrainingReturns ==
    label_json = <<>> => pc # "error"

\* C5: a training run that completes has run epochs 0..4, saved exactly one
\* checkpoint per epoch, each after all batches of its epoch, and returned
\* the name saved for epoch 4, which is the one the evaluation loads.
C5_CheckpointPerEpoch ==
    /\ Len(saved) = epoch
    /\ TrainingCompleted =>
         /\ epoch = num_epochs
         /\ \A i \in 1..num_epochs :
              /\ EpochOfName(saved[i].name) = i - 1
              /\ saved[i].params = i * BatchesPerEpoch
         /\ model_checkpoint = saved[num_epochs].name
         /\ EpochOfName(model_checkpoint) = 4
    /\ eval_loaded # NoCheckpoint =>
         /\ TrainingCompleted
         /\ eval_loaded = saved[num_epochs].name

\* a finished script whose epochs had two batches each
C5_Witness ==
    /\ pc = "done"
    /\ BatchesPerEpoch = 2
    /\ Len(saved) = 5
    /\ eval_loaded = saved[5].name
    /\ saved[1].name # saved[5].name

\* C6: when an image of a training batch cannot be opened the run fails
\* there: nothing is skipped or retried, no later batch or epoch runs, no
\* checkpoint identifier is returned, no checkpoint exists for the epoch of
\* the failure, and the evaluation never starts.
C6_UnreadableImageIsFatal ==
    /\ [][(pc = "open" /\ pc' # "forward") =>
            /\ pc' = "error"
            /\ error' = "open_train"
            /\ UNCHANGED <<trainVars, batchVars, evalVars, model_checkpoint>>]_vars
    /\ [][pc # "error"]_vars
    /\ [](error = "open_train" =>
            /\ pc = "error"
            /\ model_checkpoint = Pretrained
            /\ Len(saved) = epoch
            /\ \A i \in DOMAIN saved : EpochOfName(saved[i].name) < epoch
            /\ eval_loaded = NoCheckpoint
            /\ test_dataset = NoDataset
            /\ ~report)

\* a failure in the first of two batches of a later epoch
C6_Witness ==
    /\ error = "open_train"
    /\ epoch = 2
    /\ remaining # {}
    /\ Len(saved) = 2

\* batches the loader has yielded so far, while the batch loop runs
BatchesStarted ==
    epoch * BatchesPerEpoch
        + (BatchesPerEpoch - NumBatches(Cardinality(remaining)))

\* C10: the parameters change once per batch, by the optimizer step alone,
\* after zero_grad, image loading, forward, loss, backward and clipping in
\* that order; no batch begins before the previous one's step is done; a
\* completed run has made 5 * (batches per epoch) steps; and the list of
\* losses restarts with each epoch, so a checkpoint's mean loss is the mean
\* of its own epoch's batches.
C10_OneStepPerBatch ==
    /\ [][params' # params =>
            /\ pc = "step"
            /\ params' = params + 1
            /\ batch_ops = SubSeq(BatchOps, 1, 6)
            /\ batch_ops' = BatchOps]_vars
    /\ [][(pc = "fetch" /\ pc' = "zero_grad") =>
            batch_ops \in {<<>>, BatchOps}]_vars
    /\ [](pc \in {"fetch", "record"} => params = BatchesStarted)
    /\ [](pc \in {"zero_grad", "open", "forward", "loss", "backward",
                  "clip", "step"} => params = BatchesStarted - 1)
    /\ [](TrainingCompleted => params = num_epochs * BatchesPerEpoch)
    /\ [](pc = "epoch" /\ epoch > 0 =>
            /\ Len(losses) = BatchesPerEpoch
            /\ saved[epoch].name
                 = CheckpointName(epoch - 1, RoundMean(losses)))

\* a completed run of two batches per epoch, ten steps in all, whose last
\* checkpoint is named by a mean of two different losses
C10_Witness ==
    /\ pc = "main_eval"
    /\ BatchesPerEpoch = 2
    /\ params = 10
    /\ losses = <<412, 530>>
    /\ saved[5].name = CheckpointName(4, 471)

====
